---- MODULE Spec2Model ----
(***************************************************************************)
(* Model of the font picker widget: the stylesheet policy of               *)
(* src/js/font-download.js and the FontPicker UI class of                  *)
(* src/FontPicker/FontPicker.js.                                           *)
(*                                                                         *)
(* Strings that the code takes apart (font families, element ids, URLs)    *)
(* are sequences of one-character strings, so that replace(), toLowerCase  *)
(* and the template strings are computed rather than assumed.              *)
(***************************************************************************)
EXTENDS Integers, Sequences, FiniteSets, TLC

VARIABLES
    head,       \* document.head: the <link> elements appended by font-download.js, in document order
    lastCall,   \* history: the last exported font-download call and what it observed
    \* FontPicker instance fields and the DOM nodes it owns
    pickerSuffix,           \* this.pickerSuffix
    expanded,               \* this.expanded
    dropdownButtonClasses,  \* this.dropdownButton.classList
    ulClasses,              \* this.ul.classList
    dropdownIconClasses,    \* dropdownIcon.classList
    clickListeners,         \* 'click' listeners registered on document
    dropdownFont,           \* this.dropdownFont.innerHTML
    title,                  \* fontPickerDiv.title
    li,                     \* the font buttons of the <li> children of this.ul, in order
    ulAppended,             \* whether this.ul is a child of fontPickerDiv
    activeFontA,            \* this.activeFontA: index into li, 0 when undefined
    fonts,                  \* this.fontManager.fonts
    activeFont,             \* this.fontManager.activeFont.family
    initState,              \* the promise returned by this.fontManager.init()
    initCalls,              \* number of calls of this.fontManager.init()
    consoleErrors,          \* number of console.error calls
    lastEvent,              \* history: the last event delivered to the picker
    \* the rendered font list as a scroll container, and the throttled scroll handler
    listLength,             \* this.fontManager.fonts.length
    entryHeight,            \* height of each <li>, in pixels
    clientHeight,           \* this.ul.clientHeight
    scrollTop,              \* this.ul.scrollTop
    timerId,                \* throttle: whether the wait timer is running
    trailingCall,           \* throttle: whether a call arrived while the timer was running
    downloadPreviewsArg,    \* the argument of the last fontManager.downloadPreviews call, 0 before any
    onScrollTop             \* history: this.ul.scrollTop when onScroll last ran

fontVars == <<head, lastCall>>

pickerVars ==
    <<pickerSuffix, expanded, dropdownButtonClasses, ulClasses, dropdownIconClasses,
      clickListeners, dropdownFont, title, li, ulAppended, activeFontA, fonts,
      activeFont, initState, initCalls, consoleErrors, lastEvent>>

scrollVars ==
    <<listLength, entryHeight, clientHeight, scrollTop, timerId, trailingCall,
      downloadPreviewsArg, onScrollTop>>

vars == <<fontVars, pickerVars, scrollVars>>

-----------------------------------------------------------------------------
(* Bounds *)

MaxHead == 4        \* number of <link> elements the document head may hold
MaxFonts == 3       \* length of the font list fontManager.init() leaves in fontManager.fonts
MaxEntryHeight == 3 \* height of a list entry, in pixels
MaxClientHeight == 4 \* height of the list's viewport, in pixels

-----------------------------------------------------------------------------
(* String helpers (JavaScript String.prototype semantics) *)

IsSpace(c) == c = " "

\* String.prototype.toLowerCase on one character
LowerChar(c) ==
    CASE c = "A" -> "a"
      [] c = "B" -> "b"
      [] OTHER -> c

ToLowerCase(s) == [i \in 1..Len(s) |-> LowerChar(s[i])]

RECURSIVE SkipSpaces(_)
SkipSpaces(s) ==
    IF s = <<>> THEN <<>>
    ELSE IF IsSpace(Head(s)) THEN SkipSpaces(Tail(s)) ELSE s

\* s.replace(/\s+/g, r): every maximal run of whitespace becomes r
RECURSIVE ReplaceSpaceRuns(_, _)
ReplaceSpaceRuns(s, r) ==
    IF s = <<>> THEN <<>>
    ELSE IF IsSpace(Head(s)) THEN r \o ReplaceSpaceRuns(SkipSpaces(s), r)
    ELSE <<Head(s)>> \o ReplaceSpaceRuns(Tail(s), r)

\* s.replace(/ /g, r): every single space becomes r
ReplaceEachSpace(s, r) == [i \in 1..Len(s) |-> IF IsSpace(s[i]) THEN r ELSE s[i]]

\* s.split('').filter((x, n, s) => s.indexOf(x) === n).join('')
RECURSIVE DropDuplicates(_, _)
DropDuplicates(s, seen) ==
    IF s = <<>> THEN <<>>
    ELSE IF Head(s) \in seen THEN DropDuplicates(Tail(s), seen)
    ELSE <<Head(s)>> \o DropDuplicates(Tail(s), seen \cup {Head(s)})

\* Array.prototype.includes
Includes(arr, x) == \E i \in 1..Len(arr) : arr[i] = x

-----------------------------------------------------------------------------
(* Fonts handed to font-download.js: objects with a family and variants *)

Font(family, variants) == [family |-> family, variants |-> variants]

FontAb    == Font(<<"A", "b">>, <<"regular", "700">>)
FontA_B   == Font(<<"A", " ", "B">>, <<"300", "regular">>)
Fonta__b  == Font(<<"a", " ", " ", "b">>, <<"italic">>)

Fonts == {FontAb, FontA_B, Fonta__b}

\* const fontId = font.family.replace(/\s+/g, '-').toLowerCase();
FontIdOf(family) == ToLowerCase(ReplaceSpaceRuns(family, <<"-">>))

PreviewId(fontId) == <<"font-preview-">> \o fontId
FullId(fontId)    == <<"font-full-">> \o fontId

\* the stylesheet URL both download functions start from
StylesheetUrl(font) ==
    <<"https://fonts.googleapis.com/css?family=">>
        \o ReplaceEachSpace(font.family, "+")
        \o (IF Includes(font.variants, "regular")
              THEN <<":regular">>
              ELSE <<":", font.variants[1]>>)

-----------------------------------------------------------------------------
(* The document: getElementById, outerHTML = '', head.appendChild *)

HasElement(doc, id) == \E i \in 1..Len(doc) : doc[i].id = id

CountElements(doc, id) == Cardinality({i \in 1..Len(doc) : doc[i].id = id})

\* document.getElementById returns the first element with the id in document order
FirstIndexOf(doc, id) ==
    CHOOSE i \in 1..Len(doc) :
        /\ doc[i].id = id
        /\ \A j \in 1..(i - 1) : doc[j].id # id

\* document.getElementById(id).outerHTML = '' : that one element leaves the document
RemoveFirst(doc, id) ==
    LET k == FirstIndexOf(doc, id)
    IN  [i \in 1..(Len(doc) - 1) |-> IF i < k THEN doc[i] ELSE doc[i + 1]]

Link(href, id) == [rel |-> "stylesheet", href |-> href, id |-> id]

downloadFullFont(doc, font, fontId) ==
    Append(doc, Link(StylesheetUrl(font), FullId(fontId)))

downloadPreviewFont(doc, font, fontId) ==
    LET downloadChars == DropDuplicates(ReplaceSpaceRuns(font.family, <<>>), {})
    IN  Append(doc, Link(StylesheetUrl(font) \o <<"&text=">> \o downloadChars,
                         PreviewId(fontId)))

\* checkFullFont(font); available is what isFontAvailable(font.family) answers
checkFullFont(doc, font, available) ==
    LET fontId == FontIdOf(font.family)
    IN  IF HasElement(doc, PreviewId(fontId))
          THEN downloadFullFont(RemoveFirst(doc, PreviewId(fontId)), font, fontId)
          ELSE IF ~HasElement(doc, FullId(fontId)) /\ ~available
                 THEN downloadFullFont(doc, font, fontId)
                 ELSE doc

\* the guard without the test for the full stylesheet
checkPreviewFont_NoFullTest(doc, font, available) ==
    LET fontId == FontIdOf(font.family)
    IN  IF ~available
          THEN downloadPreviewFont(doc, font, fontId)
          ELSE doc

\* checkPreviewFont(font)
checkPreviewFont(doc, font, available) ==
    LET fontId == FontIdOf(font.family)
    IN  IF ~HasElement(doc, FullId(fontId)) /\ ~available
          THEN downloadPreviewFont(doc, font, fontId)
          ELSE doc

NoCall == [op |-> "none"]

Call(op, font, available, doc) ==
    [op |-> op, font |-> font, available |-> available,
     hadPreview |-> HasElement(doc, PreviewId(FontIdOf(font.family))),
     hadFull |-> HasElement(doc, FullId(FontIdOf(font.family)))]

FontInit == head = <<>> /\ lastCall = NoCall

-----------------------------------------------------------------------------
(* The font list as a scroll container; onScroll behind lodash.throttle *)

Max(a, b) == IF a >= b THEN a ELSE b

\* Math.ceil(a / b) and Math.floor(a / b) for integers a >= 0, b > 0
CeilDiv(a, b) == (a + b - 1) \div b
FloorDiv(a, b) == a \div b

\* this.ul.scrollHeight: the height of the content, at least that of the viewport
ScrollHeight(n, h, ch) == Max(n * h, ch)

\* onScroll's download index with Math.floor in place of Math.ceil
downloadIndex_Floor(sTop, ch, sHeight, n) == FloorDiv((sTop + ch) * n, sHeight)

\* const elementHeight = this.ul.scrollHeight / this.fontManager.fonts.length;
\* const downloadIndex = Math.ceil((this.ul.scrollTop + this.ul.clientHeight) / elementHeight);
\* (the quotient of the two divisions, computed exactly)
downloadIndex(sTop, ch, sHeight, n) == CeilDiv((sTop + ch) * n, sHeight)

\* onScroll(): the argument it passes to fontManager.downloadPreviews
onScroll(sTop, ch, sHeight, n) == downloadIndex(sTop, ch, sHeight, n) + 5

ScrollInit ==
    /\ listLength \in 1..MaxFonts
    /\ entryHeight \in 1..MaxEntryHeight
    /\ clientHeight \in 0..MaxClientHeight
    /\ scrollTop = 0
    /\ timerId = FALSE
    /\ trailingCall = FALSE
    /\ downloadPreviewsArg = 0
    /\ onScrollTop = -1

ScrollIdle ==
    /\ listLength = 1
    /\ entryHeight = 1
    /\ clientHeight = 1
    /\ scrollTop = 0
    /\ timerId = FALSE
    /\ trailingCall = FALSE
    /\ downloadPreviewsArg = 0
    /\ onScrollTop = -1

\* the throttled function invokes () => this.onScroll()
InvokeOnScroll(sTop) ==
    /\ downloadPreviewsArg' =
          onScroll(sTop, clientHeight,
                   ScrollHeight(listLength, entryHeight, clientHeight), listLength)
    /\ onScrollTop' = sTop

\* the user scrolls the list and the scroll event calls the throttled function:
\* while the timer runs the call is only noted; else the timer starts, and
\* onScroll is invoked at once (leading call) unless the previous call was less
\* than THROTTLE_INTERVAL ago, when the call is left to the timer
Scroll ==
    \E newTop \in 0..(ScrollHeight(listLength, entryHeight, clientHeight) - clientHeight) :
        /\ newTop # scrollTop
        /\ scrollTop' = newTop
        /\ \/ /\ timerId
              /\ trailingCall' = TRUE
              /\ UNCHANGED <<timerId, downloadPreviewsArg, onScrollTop>>
           \/ /\ ~timerId
              /\ timerId' = TRUE
              /\ InvokeOnScroll(newTop)
              /\ UNCHANGED trailingCall
           \/ /\ ~timerId
              /\ downloadPreviewsArg # 0
              /\ timerId' = TRUE
              /\ trailingCall' = TRUE
              /\ UNCHANGED <<downloadPreviewsArg, onScrollTop>>
        /\ UNCHANGED <<listLength, entryHeight, clientHeight>>
        /\ UNCHANGED <<fontVars, pickerVars>>

\* THROTTLE_INTERVAL has passed: the trailing call, if any, is made
TimerExpires ==
    /\ timerId
    /\ timerId' = FALSE
    /\ trailingCall' = FALSE
    /\ IF trailingCall
         THEN InvokeOnScroll(scrollTop)
         ELSE UNCHANGED <<downloadPreviewsArg, onScrollTop>>
    /\ UNCHANGED <<listLength, entryHeight, clientHeight, scrollTop>>
    /\ UNCHANGED <<fontVars, pickerVars>>

ScrollNext == Scroll \/ TimerExpires

-----------------------------------------------------------------------------
(* FontManager, as FontPicker uses it: fonts, activeFont, init(),
   setActiveFont(family) *)

\* a catalog item whose family property is missing (the catalog's shape is not validated)
Undefined == <<"undefined">>

Families == {f.family : f \in Fonts}

CatalogItems == [family : Families \cup {Undefined}]

\* The font lists fontManager.init() may leave in fontManager.fonts: the named
\* families are distinct and the active font is one of them.
FontLists(active) ==
    {list \in UNION {[1..n -> CatalogItems] : n \in 1..MaxFonts} :
        /\ \E i \in 1..Len(list) : list[i].family = active
        /\ \A i, j \in 1..Len(list) :
              (list[i].family = list[j].family /\ list[i].family # Undefined) => i = j}

\* fontManager.setActiveFont(fontFamily): the list index of the family, -1 when it is not listed
fmListIndex(list, fontFamily) ==
    IF \E i \in 1..Len(list) : list[i].family = fontFamily
      THEN (CHOOSE i \in 1..Len(list) :
                /\ list[i].family = fontFamily
                /\ \A j \in 1..(i - 1) : list[j].family # fontFamily) - 1
      ELSE -1

\* fontManager.setActiveFont(fontFamily): the active font changes when the family is listed
fmSetActiveFont(p, fontFamily) ==
    IF fmListIndex(p.fonts, fontFamily) >= 0
      THEN [p EXCEPT !.activeFont = fontFamily]
      ELSE p

-----------------------------------------------------------------------------
(* The DOM around the picker *)

Node(name, i) == <<name, i>>

NullNode       == Node("null", 0)
DocumentNode   == Node("document", 0)
HtmlNode       == Node("html", 0)
BodyNode       == Node("body", 0)
FontPickerDiv  == Node("fontPickerDiv", 0)     \* document.getElementById(this.pickerId)
DropdownButton == Node("dropdownButton", 0)
DropdownFontP  == Node("dropdownFont", 0)
DropdownIconP  == Node("dropdownIcon", 0)
UlNode         == Node("ul", 0)
LiNode(i)      == Node("li", i)
FontButton(i)  == Node("fontButton", i)
OutsideDiv     == Node("outsideDiv", 0)        \* an element of the page that is not in the picker
OutsideSpan    == Node("outsideSpan", 0)       \* a child of it

\* element.parentNode, as generateUI's appendChild calls leave it
ParentNode(p, node) ==
    CASE node[1] = "fontButton" -> LiNode(node[2])
      [] node[1] = "li" -> UlNode
      [] node = UlNode -> IF p.ulAppended THEN FontPickerDiv ELSE NullNode
      [] node = DropdownFontP -> DropdownButton
      [] node = DropdownIconP -> DropdownButton
      [] node = DropdownButton -> FontPickerDiv
      [] node = FontPickerDiv -> BodyNode
      [] node = OutsideSpan -> OutsideDiv
      [] node = OutsideDiv -> BodyNode
      [] node = BodyNode -> HtmlNode
      [] node = HtmlNode -> DocumentNode
      [] OTHER -> NullNode

RECURSIVE IsDescendantOrSelf(_, _, _)
IsDescendantOrSelf(p, node, ancestor) ==
    IF node = NullNode THEN FALSE
    ELSE IF node = ancestor THEN TRUE
    ELSE IsDescendantOrSelf(p, ParentNode(p, node), ancestor)

Elements(p) ==
    {HtmlNode, BodyNode, FontPickerDiv, DropdownButton, DropdownFontP, DropdownIconP,
     UlNode, OutsideDiv, OutsideSpan}
        \cup {LiNode(i) : i \in 1..Len(p.li)}
        \cup {FontButton(i) : i \in 1..Len(p.li)}

\* the elements an event can be targeted at: those in the document
EventTargets(p) == {n \in Elements(p) : IsDescendantOrSelf(p, n, DocumentNode)}

InsidePicker(p, node) == IsDescendantOrSelf(p, node, FontPickerDiv)

-----------------------------------------------------------------------------
(* FontPicker *)

ActiveFontClass == <<"active-font">>

ErrMessage == "Error trying to fetch the list of available fonts"

\* the picker as one value, for the methods below
Picker ==
    [pickerSuffix |-> pickerSuffix, expanded |-> expanded,
     dropdownButtonClasses |-> dropdownButtonClasses, ulClasses |-> ulClasses,
     dropdownIconClasses |-> dropdownIconClasses, clickListeners |-> clickListeners,
     dropdownFont |-> dropdownFont, title |-> title, li |-> li,
     ulAppended |-> ulAppended, activeFontA |-> activeFontA, fonts |-> fonts,
     activeFont |-> activeFont, initState |-> initState, initCalls |-> initCalls,
     consoleErrors |-> consoleErrors]

\* toggleExpanded that keeps the document listener when it collapses
toggleExpanded_KeepsListener(p) ==
    IF p.expanded
      THEN [p EXCEPT !.expanded = FALSE,
                     !.dropdownButtonClasses = @ \ {"expanded"},
                     !.ulClasses = @ \ {"expanded"}]
      ELSE [p EXCEPT !.expanded = TRUE,
                     !.dropdownButtonClasses = @ \cup {"expanded"},
                     !.ulClasses = @ \cup {"expanded"},
                     !.clickListeners = @ \cup {"closeEventListener"}]

toggleExpanded(p) ==
    IF p.expanded
      THEN [p EXCEPT !.expanded = FALSE,
                     !.dropdownButtonClasses = @ \ {"expanded"},
                     !.ulClasses = @ \ {"expanded"},
                     !.clickListeners = @ \ {"closeEventListener"}]
      ELSE [p EXCEPT !.expanded = TRUE,
                     !.dropdownButtonClasses = @ \cup {"expanded"},
                     !.ulClasses = @ \cup {"expanded"},
                     !.clickListeners = @ \cup {"closeEventListener"}]

\* the do-while of closeEventListener, from targetElement upwards
RECURSIVE closeEventListenerFrom(_, _)
closeEventListenerFrom(p, targetElement) ==
    IF targetElement = FontPickerDiv
      THEN p                                        \* click inside font picker
      ELSE IF ParentNode(p, targetElement) = NullNode
             THEN toggleExpanded(p)                 \* click outside font picker
             ELSE closeEventListenerFrom(p, ParentNode(p, targetElement))

\* closeEventListener that tests the clicked element only, not its ancestors
closeEventListener_TargetOnly(p, target) ==
    IF target = FontPickerDiv THEN p ELSE toggleExpanded(p)

\* closeEventListener(e), target being e.target
closeEventListener(p, target) == closeEventListenerFrom(p, target)

\* setActiveFont that leaves the highlight on the previous entry
setActiveFont_KeepsOldHighlight(p, fontFamily) ==
    LET listIndex == fmListIndex(p.fonts, fontFamily)
        p1 == fmSetActiveFont(p, fontFamily)
    IN  IF listIndex >= 0 /\ p1.activeFontA # 0 /\ listIndex + 1 <= Len(p1.li)
          THEN [p1 EXCEPT !.dropdownFont = fontFamily,
                          !.activeFontA = listIndex + 1,
                          !.li[listIndex + 1].classes = @ \cup {ActiveFontClass}]
          ELSE p1

\* setActiveFont(fontFamily); a TypeError ends the method where it is thrown
setActiveFont(p, fontFamily) ==
    LET listIndex == fmListIndex(p.fonts, fontFamily)
        p1 == fmSetActiveFont(p, fontFamily)
    IN  IF listIndex >= 0
          THEN LET p2 == [p1 EXCEPT !.dropdownFont = fontFamily]
               IN  IF p2.activeFontA = 0
                     THEN p2            \* this.activeFontA is undefined
                     ELSE LET p3 == [p2 EXCEPT !.li[p2.activeFontA].classes =
                                                    @ \ {ActiveFontClass}]
                          IN  IF listIndex + 1 > Len(p3.li)
                                THEN p3 \* no <li> at listIndex
                                ELSE [p3 EXCEPT !.activeFontA = listIndex + 1,
                                                !.li[listIndex + 1].classes =
                                                    @ \cup {ActiveFontClass}]
          ELSE p1

\* fontButton.onclick and fontButton.onkeypress of list entry i
fontButtonHandler(p, i) ==
    LET collapsed == toggleExpanded(p)      \* collapse font list
    IN  setActiveFont(collapsed, collapsed.fonts[i].family)

\* the catch handler that starts the fetch again
onRejected_Retries(p) ==
    [p EXCEPT !.dropdownIconClasses = (@ \ {"loading"}) \cup {"error"},
              !.consoleErrors = @ + 2,
              !.title = ErrMessage,
              !.initState = "pending",
              !.initCalls = @ + 1]

\* the .catch handler of generateUI
onRejected(p) ==
    [p EXCEPT !.dropdownIconClasses = (@ \ {"loading"}) \cup {"error"},
              !.consoleErrors = @ + 2,
              !.title = ErrMessage]

\* the for loop of the .then handler from entry i on; threw when reading the
\* family of a malformed entry raises a TypeError
RECURSIVE renderEntries(_, _)
renderEntries(p, i) ==
    IF i > Len(p.fonts)
      THEN [picker |-> [p EXCEPT !.ulAppended = TRUE], threw |-> FALSE]
      ELSE IF p.fonts[i].family = Undefined
             THEN [picker |-> p, threw |-> TRUE]
             ELSE LET fontFamily == p.fonts[i].family
                      fontId == FontIdOf(fontFamily)
                      isActive == fontFamily = p.activeFont
                      fontButton ==
                          [innerHTML |-> fontFamily,
                           classes |-> {<<"font-">> \o fontId \o p.pickerSuffix}
                                          \cup (IF isActive THEN {ActiveFontClass} ELSE {})]
                  IN  renderEntries(
                          [p EXCEPT !.li = Append(@, fontButton),
                                    !.activeFontA = IF isActive THEN i ELSE @],
                          i + 1)

\* the .then handler of generateUI, followed by the .catch handler when it throws
onFulfilled(p) ==
    LET p1 == [p EXCEPT !.dropdownIconClasses = (@ \ {"loading"}) \cup {"finished"}]
        rendered == renderEntries(p1, 1)
    IN  IF rendered.threw THEN onRejected(rendered.picker) ELSE rendered.picker

\* the handlers a click event meets at one node of its path
onclickAt(p, node, target) ==
    CASE node[1] = "fontButton" -> fontButtonHandler(p, node[2])
      [] node = DropdownButton -> toggleExpanded(p)
      [] node = DocumentNode ->
            IF "closeEventListener" \in p.clickListeners
              THEN closeEventListener(p, target)
              ELSE p
      [] OTHER -> p

\* a click event bubbling from node to the document
RECURSIVE bubbleClick(_, _, _)
bubbleClick(p, node, target) ==
    IF node = NullNode THEN p
    ELSE bubbleClick(onclickAt(p, node, target), ParentNode(p, node), target)

clickOn(p, target) == bubbleClick(p, target, target)

\* a keypress event on a button: its onkeypress handler
keypressOn(p, target) ==
    CASE target[1] = "fontButton" -> fontButtonHandler(p, target[2])
      [] target = DropdownButton -> toggleExpanded(p)
      [] OTHER -> p

Buttons(p) == {n \in EventTargets(p) : n = DropdownButton \/ n[1] = "fontButton"}

Highlighted(p) == {i \in 1..Len(p.li) : ActiveFontClass \in p.li[i].classes}

NoEvent ==
    [type |-> "none", target |-> NullNode, family |-> Undefined, listIndex |-> -1,
     wasExpanded |-> FALSE, labelBefore |-> Undefined, highlightedBefore |-> {}]

Event(type, target, family, p) ==
    [type |-> type, target |-> target, family |-> family,
     listIndex |-> fmListIndex(p.fonts, family),
     wasExpanded |-> p.expanded, labelBefore |-> p.dropdownFont,
     highlightedBefore |-> Highlighted(p)]

FamilyAt(p, target) ==
    IF target[1] = "fontButton" THEN p.fonts[target[2]].family ELSE Undefined

SetPicker(p) ==
    /\ pickerSuffix' = p.pickerSuffix
    /\ expanded' = p.expanded
    /\ dropdownButtonClasses' = p.dropdownButtonClasses
    /\ ulClasses' = p.ulClasses
    /\ dropdownIconClasses' = p.dropdownIconClasses
    /\ clickListeners' = p.clickListeners
    /\ dropdownFont' = p.dropdownFont
    /\ title' = p.title
    /\ li' = p.li
    /\ ulAppended' = p.ulAppended
    /\ activeFontA' = p.activeFontA
    /\ fonts' = p.fonts
    /\ activeFont' = p.activeFont
    /\ initState' = p.initState
    /\ initCalls' = p.initCalls
    /\ consoleErrors' = p.consoleErrors

\* new FontPicker(apiKey, defaultFont, options, onChange) has returned
ConstructedWith(defaultFont, suffix) ==
    /\ pickerSuffix = suffix
    /\ expanded = FALSE
    /\ dropdownButtonClasses = {"dropdown-button"}
    /\ ulClasses = {}
    /\ dropdownIconClasses = {"dropdown-icon", "loading"}
    /\ clickListeners = {}
    /\ dropdownFont = defaultFont
    /\ title = ""
    /\ li = <<>>
    /\ ulAppended = FALSE
    /\ activeFontA = 0
    /\ fonts = <<>>
    /\ activeFont = defaultFont
    /\ initState = "pending"
    /\ initCalls = 1
    /\ consoleErrors = 0
    /\ lastEvent = NoEvent

PickerSuffixes == {<<>>, <<"-", "x">>}

PickerInit ==
    \E defaultFont \in Families, suffix \in PickerSuffixes :
        ConstructedWith(defaultFont, suffix)

PickerIdle == ConstructedWith(FontAb.family, <<>>)

FontIdle == FontInit

\* fontManager.init() resolves with some font list and the .then handler runs
InitResolves ==
    /\ initState = "pending"
    /\ \E list \in FontLists(activeFont) :
          SetPicker(onFulfilled([Picker EXCEPT !.initState = "resolved", !.fonts = list]))
    /\ UNCHANGED lastEvent
    /\ UNCHANGED <<fontVars, scrollVars>>

\* the catalog fetch fails: fontManager.init() rejects and the .catch handler runs
InitRejects ==
    /\ initState = "pending"
    /\ SetPicker(onRejected([Picker EXCEPT !.initState = "rejected"]))
    /\ UNCHANGED lastEvent
    /\ UNCHANGED <<fontVars, scrollVars>>

Click ==
    \E target \in EventTargets(Picker) :
        /\ SetPicker(clickOn(Picker, target))
        /\ lastEvent' = Event("click", target, FamilyAt(Picker, target), Picker)
        /\ UNCHANGED <<fontVars, scrollVars>>

Keypress ==
    \E target \in Buttons(Picker) :
        /\ SetPicker(keypressOn(Picker, target))
        /\ lastEvent' = Event("keypress", target, FamilyAt(Picker, target), Picker)
        /\ UNCHANGED <<fontVars, scrollVars>>

\* the page calls the public method setActiveFont on a rendered picker
CallSetActiveFont ==
    \E fontFamily \in Families :
        /\ ulAppended
        /\ SetPicker(setActiveFont(Picker, fontFamily))
        /\ lastEvent' = Event("setActiveFont", NullNode, fontFamily, Picker)
        /\ UNCHANGED <<fontVars, scrollVars>>

PickerNext == InitResolves \/ InitRejects \/ Click \/ Keypress \/ CallSetActiveFont

PickerSpecInit == PickerInit /\ FontIdle /\ ScrollIdle

SpecPicker == PickerSpecInit /\ [][PickerNext]_vars


ScrollSpecInit == ScrollInit /\ FontIdle /\ PickerIdle

SpecScroll == ScrollSpecInit /\ [][ScrollNext]_vars

CheckPreviewFont ==
    \E font \in Fonts, available \in BOOLEAN :
        /\ Len(head) < MaxHead
        /\ head' = checkPreviewFont(head, font, available)
        /\ lastCall' = Call("checkPreviewFont", font, available, head)
        /\ UNCHANGED <<pickerVars, scrollVars>>

CheckFullFont ==
    \E font \in Fonts, available \in BOOLEAN :
        /\ Len(head) < MaxHead
        /\ head' = checkFullFont(head, font, available)
        /\ lastCall' = Call("checkFullFont", font, available, head)
        /\ UNCHANGED <<pickerVars, scrollVars>>

FontNext == CheckPreviewFont \/ CheckFullFont

FontSpecInit == FontInit /\ PickerIdle /\ ScrollIdle

SpecFonts == FontSpecInit /\ [][FontNext]_vars

-----------------------------------------------------------------------------
(* C1: when a font-preview-<fontId> element is present as checkFullFont(font)
   is called, then right after the call no element with that id remains and
   an element font-full-<fontId> is present. *)
C1_FullReplacesPreview ==
    (lastCall.op = "checkFullFont" /\ lastCall.hadPreview) =>
        LET fontId == FontIdOf(lastCall.font.family)
        IN  /\ ~HasElement(head, PreviewId(fontId))
            /\ HasElement(head, FullId(fontId))

(* C2: a font-full-<fontId> element, once added, is never removed; while it
   is present no call adds a font-preview-<fontId> element; and a
   checkPreviewFont call for which isFontAvailable answers true adds
   nothing. *)
C2_PreviewOnlyWithoutFull ==
    [][ /\ \A f \in Fonts :
              LET fontId == FontIdOf(f.family)
              IN  HasElement(head, FullId(fontId)) =>
                    /\ CountElements(head', FullId(fontId)) >= CountElements(head, FullId(fontId))
                    /\ CountElements(head', PreviewId(fontId)) <= CountElements(head, PreviewId(fontId))
        /\ (lastCall'.op = "checkPreviewFont" /\ lastCall'.available) => head' = head
      ]_vars

C2_Witness ==
    /\ lastCall.op = "checkPreviewFont"
    /\ lastCall.hadFull
    /\ ~lastCall.available
    /\ lastCall.font = Fonta__b
    /\ \E i \in 1..Len(head) : head[i].id = FullId(FontIdOf(FontA_B.family))

-----------------------------------------------------------------------------
IconStates == {"loading", "finished", "error"}

IconIs(classes, state) == classes \cap IconStates = {state}

(* C3: the dropdown icon always carries exactly one of 'loading', 'finished',
   'error'; it starts as 'loading', leaves it for 'finished' when init()
   resolves or for 'error' when it rejects, and never changes afterwards. *)
C3_IconThreeValued ==
    /\ IconIs(dropdownIconClasses, "loading")
    /\ [][ /\ Cardinality(dropdownIconClasses' \cap IconStates) = 1
           /\ ~IconIs(dropdownIconClasses, "loading") =>
                  dropdownIconClasses' = dropdownIconClasses
           /\ (IconIs(dropdownIconClasses, "loading")
                  /\ dropdownIconClasses' # dropdownIconClasses) =>
                  \/ initState' = "resolved" /\ IconIs(dropdownIconClasses', "finished")
                  \/ initState' = "rejected" /\ IconIs(dropdownIconClasses', "error")
         ]_vars

(* C4: init() is called once per picker, and once the catalog fetch has
   failed the icon shows 'error', the picker div's title is the error message,
   the error is logged and the font list is not appended to the picker div,
   whatever events came before or come after. *)
C4_FetchFailureShowsError ==
    /\ initCalls = 1
    /\ initState = "rejected" =>
          /\ IconIs(dropdownIconClasses, "error")
          /\ title = ErrMessage
          /\ consoleErrors = 2
          /\ ~ulAppended
          /\ li = <<>>

C4_Witness ==
    /\ initState = "rejected"
    /\ lastEvent.type = "click"
    /\ lastEvent.target = OutsideSpan
    /\ lastEvent.wasExpanded

(* C5: after a document click outside the picker the picker is collapsed,
   whether it was expanded or collapsed before; closeEventListener leaves the
   picker as it is for every click target inside the picker. *)
C5_OutsideClickCloses ==
    /\ (lastEvent.type = "click" /\ ~InsidePicker(Picker, lastEvent.target)) => ~expanded
    /\ \A target \in EventTargets(Picker) :
          InsidePicker(Picker, target) => closeEventListener(Picker, target) = Picker

C5_Witness ==
    /\ lastEvent.type = "click"
    /\ ~InsidePicker(Picker, lastEvent.target)
    /\ lastEvent.wasExpanded
    /\ ~expanded
    /\ ulAppended

(* C7: in every reachable state, a keypress on the dropdown button or on a
   font entry button leaves the picker in the same state as a click on that
   button. *)
C7_KeypressMirrorsClick ==
    \A button \in Buttons(Picker) : keypressOn(Picker, button) = clickOn(Picker, button)

C7_Witness ==
    /\ lastEvent.type = "keypress"
    /\ lastEvent.target = DropdownButton
    /\ ~lastEvent.wasExpanded
    /\ expanded
    /\ "closeEventListener" \in clickListeners
    /\ Len(li) >= 2

EntryActivated ==
    lastEvent.type \in {"click", "keypress"} /\ lastEvent.target[1] = "fontButton"

(* C8: activating a font entry while the list is expanded collapses the list;
   when fontManager.setActiveFont returns an index >= 0 the dropdown label is
   the family and the entry at that index is the only one with 'active-font',
   when it returns a negative index label and highlight are unchanged; a
   rendered list never has more than one highlighted entry. *)
C8_SelectSetsActiveFont ==
    /\ (EntryActivated /\ lastEvent.wasExpanded) => ~expanded
    /\ ((EntryActivated \/ lastEvent.type = "setActiveFont") /\ lastEvent.listIndex >= 0) =>
          /\ dropdownFont = lastEvent.family
          /\ Highlighted(Picker) = {lastEvent.listIndex + 1}
    /\ ((EntryActivated \/ lastEvent.type = "setActiveFont") /\ lastEvent.listIndex < 0) =>
          /\ dropdownFont = lastEvent.labelBefore
          /\ Highlighted(Picker) = lastEvent.highlightedBefore
    /\ ulAppended => Cardinality(Highlighted(Picker)) <= 1

C8_Witness ==
    /\ EntryActivated
    /\ lastEvent.wasExpanded
    /\ lastEvent.listIndex = 2
    /\ lastEvent.highlightedBefore = {1}
    /\ Highlighted(Picker) = {3}

\* the entries of which some part lies in the viewport [sTop, sTop + ch)
VisibleEntries(n, h, sTop, ch) ==
    {k \in 1..n : (k - 1) * h < sTop + ch /\ k * h > sTop}

LastVisibleEntry(n, h, sTop, ch) ==
    IF VisibleEntries(n, h, sTop, ch) = {} THEN 0
    ELSE CHOOSE k \in VisibleEntries(n, h, sTop, ch) :
            \A j \in VisibleEntries(n, h, sTop, ch) : j <= k

(* C6: the index onScroll passes to fontManager.downloadPreviews is at least
   the 1-based index of the last entry that is partly visible at the scroll
   position read when onScroll runs, plus 5. *)
C6_ScrollDownloadsVisiblePlusFive ==
    downloadPreviewsArg # 0 =>
        downloadPreviewsArg >=
            LastVisibleEntry(listLength, entryHeight, onScrollTop, clientHeight) + 5

C6_Witness ==
    /\ downloadPreviewsArg # 0
    /\ onScrollTop # scrollTop
    /\ trailingCall
    /\ listLength = 3
    /\ LastVisibleEntry(listLength, entryHeight, onScrollTop, clientHeight) = 2

====
